---- MODULE Spec2Model ----
(***************************************************************************)
(* The data-processing pipeline of agrodatazoom                            *)
(* (src/src/data_processing/__init__.py): DataProcessor.clean_dataframe,   *)
(* standardize_column_names, detect_outliers and                           *)
(* TuikDataProcessor.process_agricultural_data, aggregate_regional_data,   *)
(* with the pandas operations they call modelled by what they compute.     *)
(*                                                                         *)
(* A text (a column label, a text cell, a file path) is a sequence of      *)
(* one-character strings.  A cell is a record [t, n, d, s]:                *)
(*   t = "na"    the missing value (NaN / NaT)                             *)
(*   t = "num"   the rational n/d in lowest terms, d > 0                   *)
(*   t = "text"  the text s                                                *)
(*   t = "date"  the timestamp n nanoseconds after the epoch               *)
(*   t = "sqrt"  the square root of the rational n/d (a standard deviation)*)
(* A column label is a record [t, s, n]: the string s (t = "str") or the   *)
(* integer n (t = "int", a spreadsheet header such as 2020).               *)
(* A dataframe is [columns |-> sequence of labels, rows |-> sequence of    *)
(* [index, cells]]; index is the pandas row label.                         *)
(*                                                                         *)
(* Floats are held as exact rationals; on the values used (small integers, *)
(* quarters and halves of them) the float arithmetic of the code is exact. *)
(* A standard deviation is held as the rational under its root.  Texts are *)
(* ASCII.  A pandas call that fails on a column of the wrong dtype is      *)
(* modelled by the exception it raises (KeyError, TypeError,               *)
(* AttributeError).                                                        *)
(***************************************************************************)
EXTENDS Integers, Sequences, FiniteSets

VARIABLES raw, df, applied, pc, call, frame, raised, logs, ret

vars == <<raw, df, applied, pc, call, frame, raised, logs, ret>>

(* Most rows of a generated input table. *)
MaxRows == 2

(* Most rows of a generated single-column numeric table. *)
MaxSeries == 4

-----------------------------------------------------------------------------
(* Texts *)

(* The printable ASCII characters in code-point order, from 32 (space);    *)
(* the four quoting characters are written by name.                       *)
Ascii ==
    << " ", "!", "dquote", "#", "$", "%", "&", "quote", "(", ")", "*", "+", ",", "-",
       ".", "/", "0", "1", "2", "3", "4", "5", "6", "7", "8", "9", ":", ";",
       "<", "=", ">", "?", "@", "A", "B", "C", "D", "E", "F", "G", "H", "I",
       "J", "K", "L", "M", "N", "O", "P", "Q", "R", "S", "T", "U", "V", "W",
       "X", "Y", "Z", "[", "backslash", "]", "^", "_", "backtick", "a", "b", "c", "d", "e",
       "f", "g", "h", "i", "j", "k", "l", "m", "n", "o", "p", "q", "r", "s",
       "t", "u", "v", "w", "x", "y", "z", "{", "|", "}", "~" >>

(* ord(c): the code point of a character. *)
Ord(c) == 31 + (CHOOSE i \in 1..Len(Ascii) : Ascii[i] = c)

(* chr(k) *)
Chr(k) == Ascii[k - 31]

(* str.lower() on one character: A..Z (65..90) move to a..z. *)
LowerChar(c) == IF Ord(c) >= 65 /\ Ord(c) <= 90 THEN Chr(Ord(c) + 32) ELSE c

(* str.lower() *)
Lower(s) == [i \in 1..Len(s) |-> LowerChar(s[i])]

(* str.replace(old, new) for one-character old and new: every occurrence. *)
Replace(s, old, new) == [i \in 1..Len(s) |-> IF s[i] = old THEN new ELSE s[i]]

(* str.endswith(suffix) *)
EndsWith(s, suffix) ==
    /\ Len(s) >= Len(suffix)
    /\ SubSeq(s, Len(s) - Len(suffix) + 1, Len(s)) = suffix

(* s < t on Python strings: lexicographic by code point. *)
RECURSIVE TextLess(_, _)
TextLess(s, t) ==
    IF t = << >> THEN FALSE
    ELSE IF s = << >> THEN TRUE
    ELSE IF Ord(Head(s)) # Ord(Head(t)) THEN Ord(Head(s)) < Ord(Head(t))
    ELSE TextLess(Tail(s), Tail(t))

-----------------------------------------------------------------------------
(* Cells and labels *)

NA == [t |-> "na", n |-> 0, d |-> 1, s |-> << >>]

RECURSIVE Gcd(_, _)
Gcd(a, b) == IF b = 0 THEN a ELSE Gcd(b, a % b)

Abs(a) == IF a < 0 THEN -a ELSE a

(* The rational n/d (d > 0) in lowest terms. *)
Rat(n, d) ==
    LET g == Gcd(Abs(n), d)
    IN  [t |-> "num", n |-> n \div g, d |-> d \div g, s |-> << >>]

Num(n) == [t |-> "num", n |-> n, d |-> 1, s |-> << >>]

Text(s) == [t |-> "text", n |-> 0, d |-> 1, s |-> s]

Date(n) == [t |-> "date", n |-> n, d |-> 1, s |-> << >>]

(* The square root of the rational n/d, n >= 0, d > 0. *)
Sqrt(n, d) ==
    LET g == Gcd(n, d)
    IN  [t |-> "sqrt", n |-> n \div g, d |-> d \div g, s |-> << >>]

StrLabel(s) == [t |-> "str", s |-> s, n |-> 0]

IntLabel(n) == [t |-> "int", s |-> << >>, n |-> n]

(* pandas isna() on a cell *)
IsNA(c) == c.t = "na"

(* a < b on two cells of one kind (numbers, timestamps or texts). *)
CellLess(a, b) ==
    IF a.t = "text" /\ b.t = "text" THEN TextLess(a.s, b.s)
    ELSE a.n * b.d < b.n * a.d

(* Boolean-mask selection: the increasing sequence of the i in 1..n with   *)
(* keep[i].                                                                *)
RECURSIVE SelectIdx(_, _)
SelectIdx(n, keep) ==
    IF n = 0 THEN << >>
    ELSE IF keep[n] THEN Append(SelectIdx(n - 1, keep), n)
    ELSE SelectIdx(n - 1, keep)

(* df[column] looked up by label: the positions of the columns so named. *)
ColumnPos(d, label) == {j \in 1..Len(d.columns) : d.columns[j] = label}

(* `label in df.columns` *)
HasColumn(d, label) == ColumnPos(d, label) # {}

(* The cells of the column named label, in row order. *)
Column(d, label) ==
    LET j == CHOOSE k \in ColumnPos(d, label) : TRUE
    IN  [i \in 1..Len(d.rows) |-> d.rows[i].cells[j]]

(* The dtype pandas gives a column: float64 for numbers and missing       *)
(* values, datetime64 for timestamps, object as soon as a text occurs.     *)
Dtype(col) ==
    LET kinds == {col[i].t : i \in 1..Len(col)} \ {"na"}
    IN  IF kinds \subseteq {"num"} THEN "float64"
        ELSE IF kinds = {"date"} THEN "datetime64"
        ELSE "object"

-----------------------------------------------------------------------------
(* config/config.py *)

(* PROCESSING_CONFIG; missing_value_threshold 0.1 is held in percent. *)
PROCESSING_CONFIG ==
    [ missing_value_threshold_pct |-> 10,
      date_columns |-> << <<"y", "e", "a", "r">>, <<"d", "a", "t", "e">>,
                          <<"p", "e", "r", "i", "o", "d">> >> ]

-----------------------------------------------------------------------------
(* DataProcessor.clean_dataframe *)

(* int(len(df) * (1 - missing_threshold)): the float product truncated.    *)
(* For the thresholds and lengths used the float product truncates to the  *)
(* exact quotient.                                                         *)
ThreshOf(n, pct) == (n * (100 - pct)) \div 100

(* The number of cells of a row that are not missing. *)
NonNACount(row) == Cardinality({j \in 1..Len(row.cells) : ~IsNA(row.cells[j])})

(* dropna with the axis mistaken: the columns holding fewer than k          *)
(* non-missing cells are dropped, the rows kept.                           *)
dropna_columns(d, k) ==
    LET keep == [j \in 1..Len(d.columns) |->
                   Cardinality({i \in 1..Len(d.rows) : ~IsNA(d.rows[i].cells[j])}) >= k]
        idx == SelectIdx(Len(d.columns), keep)
    IN  [ columns |-> [j \in 1..Len(idx) |-> d.columns[idx[j]]],
          rows |-> [i \in 1..Len(d.rows) |->
                      [ index |-> d.rows[i].index,
                        cells |-> [j \in 1..Len(idx) |-> d.rows[i].cells[idx[j]]] ]] ]

(* DataFrame.dropna(thresh=k): keep the rows with at least k non-missing   *)
(* cells, in order, with their labels; the columns are untouched.          *)
dropna(d, k) ==
    LET keep == [i \in 1..Len(d.rows) |-> NonNACount(d.rows[i]) >= k]
        idx == SelectIdx(Len(d.rows), keep)
    IN  [columns |-> d.columns, rows |-> [i \in 1..Len(idx) |-> d.rows[idx[i]]]]

(* The timestamp a text parses to, or NaT. *)
ParseDate(s) ==
    IF s = <<"1", "9", "7", "0", "-", "0", "1", "-", "0", "1">> THEN Date(0) ELSE NA

(* pd.to_datetime(x, errors='coerce') on one cell: an integer counts       *)
(* nanoseconds from the epoch, a text is parsed, what cannot be parsed is  *)
(* NaT.                                                                    *)
to_datetime(c) ==
    CASE c.t = "num" -> Date(c.n \div c.d)
      [] c.t = "text" -> ParseDate(c.s)
      [] c.t = "date" -> c
      [] OTHER -> NA

(* Whether a label is one of config["date_columns"]. *)
IsDateColumn(label) ==
    /\ label.t = "str"
    /\ \E k \in 1..Len(PROCESSING_CONFIG.date_columns) :
          PROCESSING_CONFIG.date_columns[k] = label.s

(* The loop left out: no column is converted. *)
ConvertNoColumns(d) == d

(* The loop over config["date_columns"]: each one present is replaced by   *)
(* its to_datetime.                                                        *)
ConvertDateColumns(d) ==
    [ columns |-> d.columns,
      rows |-> [i \in 1..Len(d.rows) |->
                  [ index |-> d.rows[i].index,
                    cells |-> [j \in 1..Len(d.columns) |->
                                 IF IsDateColumn(d.columns[j])
                                 THEN to_datetime(d.rows[i].cells[j])
                                 ELSE d.rows[i].cells[j]] ]] ]

clean_dataframe(d) ==
    ConvertDateColumns(
        dropna(d, ThreshOf(Len(d.rows), PROCESSING_CONFIG.missing_value_threshold_pct)))

-----------------------------------------------------------------------------
(* DataProcessor.standardize_column_names *)

(* The two replacements in the other order, the first one writing '-'. *)
StandardNameSwapped(s) == Replace(Replace(Lower(s), "-", "_"), " ", "-")

(* .str.lower().str.replace(' ', '_').str.replace('-', '_') on one label *)
StandardName(s) == Replace(Replace(Lower(s), " ", "_"), "-", "_")

(* The .str accessor exists only on an index of strings. *)
AllStrLabels(d) == \A j \in 1..Len(d.columns) : d.columns[j].t = "str"

standardize_column_names(d) ==
    [ columns |-> [j \in 1..Len(d.columns) |-> StrLabel(StandardName(d.columns[j].s))],
      rows |-> d.rows ]

-----------------------------------------------------------------------------
(* What a call hands back: a dataframe, a boolean series, or an exception. *)

NoFrame == [columns |-> << >>, rows |-> << >>]

NoResult == [kind |-> "none", frame |-> NoFrame, series |-> << >>, exc |-> ""]

ReturnFrame(f) == [kind |-> "frame", frame |-> f, series |-> << >>, exc |-> ""]

ReturnSeries(s) == [kind |-> "series", frame |-> NoFrame, series |-> s, exc |-> ""]

Raise(e) == [kind |-> "raise", frame |-> NoFrame, series |-> << >>, exc |-> e]

-----------------------------------------------------------------------------
(* Rational arithmetic on "num" cells (floats, exact on the values used).  *)

RatSub(a, b) == Rat(a.n * b.d - b.n * a.d, a.d * b.d)

RatAdd(a, b) == Rat(a.n * b.d + b.n * a.d, a.d * b.d)

(* k/m times a, m > 0 *)
RatScale(k, m, a) == Rat(k * a.n, m * a.d)

(* The cells of a sequence that are not missing, in order. *)
Valid(col) == SelectSeq(col, LAMBDA c : ~IsNA(c))

(* A sequence with one cell inserted before the first cell greater than it. *)
RECURSIVE Insert(_, _)
Insert(sorted, c) ==
    IF sorted = << >> THEN <<c>>
    ELSE IF CellLess(c, Head(sorted)) THEN <<c>> \o sorted
    ELSE <<Head(sorted)>> \o Insert(Tail(sorted), c)

(* The cells of a sequence in ascending order. *)
RECURSIVE Sorted(_)
Sorted(col) ==
    IF col = << >> THEN << >> ELSE Insert(Sorted(Tail(col)), Head(col))

-----------------------------------------------------------------------------
(* DataProcessor.detect_outliers *)

(* Series.quantile(k/4), interpolation 'linear': over the non-missing      *)
(* values x[0..m-1] in ascending order, at position p = (m-1)*k/4, the     *)
(* value x[floor p] + (x[floor p + 1] - x[floor p]) * frac p; NaN when     *)
(* every value is missing.  Timestamps are interpolated as their           *)
(* nanosecond counts.                                                      *)
quantile(col, k) ==
    LET x == Sorted(Valid(col))
        m == Len(x)
        i == ((m - 1) * k) \div 4
        r == ((m - 1) * k) % 4
        lo == Num(x[i + 1].n)
        hi == Num(x[i + 2].n)
    IN  IF m = 0 THEN NA
        ELSE IF r = 0 THEN lo
        ELSE RatAdd(lo, RatScale(r, 4, RatSub(hi, lo)))

(* series < bound and series > bound, elementwise: False on a missing      *)
(* value and against a NaN bound.                                          *)
Below(c, bound) == ~IsNA(c) /\ ~IsNA(bound) /\ CellLess(Num(c.n), bound)

Above(c, bound) == ~IsNA(c) /\ ~IsNA(bound) /\ CellLess(bound, Num(c.n))

(* The comparisons made inclusive: <= and >=. *)
IsOutlierInclusive(c, lower_bound, upper_bound) ==
    /\ ~IsNA(c)
    /\ ~IsNA(lower_bound)
    /\ ~Above(c, lower_bound) \/ ~Below(c, upper_bound)

(* (df[column] < lower_bound) | (df[column] > upper_bound) on one cell *)
IsOutlier(c, lower_bound, upper_bound) == Below(c, lower_bound) \/ Above(c, upper_bound)

detect_outliers(d, column) ==
    IF ~HasColumn(d, column) THEN Raise("KeyError")
    ELSE IF Dtype(Column(d, column)) = "object" THEN Raise("TypeError")
    ELSE
        LET col == Column(d, column)
            Q1 == quantile(col, 1)
            Q3 == quantile(col, 3)
            IQR == IF IsNA(Q1) THEN NA ELSE RatSub(Q3, Q1)
            lower_bound == IF IsNA(Q1) THEN NA ELSE RatSub(Q1, RatScale(3, 2, IQR))
            upper_bound == IF IsNA(Q1) THEN NA ELSE RatAdd(Q3, RatScale(3, 2, IQR))
        IN  ReturnSeries([i \in 1..Len(d.rows) |->
                            [ index |-> d.rows[i].index,
                              value |-> IsOutlier(col[i], lower_bound, upper_bound) ]])

-----------------------------------------------------------------------------
(* TuikDataProcessor.aggregate_regional_data *)

(* The least cell of a non-empty set of cells of one kind. *)
MinCell(S) == CHOOSE c \in S : \A e \in S : ~CellLess(e, c)

(* A set of cells as an ascending sequence. *)
RECURSIVE SortedKeys(_)
SortedKeys(S) ==
    IF S = {} THEN << >> ELSE <<MinCell(S)>> \o SortedKeys(S \ {MinCell(S)})

(* groupby with dropna=False: the missing value is a group key too. *)
GroupKeysKeepNA(regions) ==
    SortedKeys({regions[i] : i \in 1..Len(regions)})

(* df.groupby(region_col): sort=True and dropna=True are the defaults, so  *)
(* the group keys are the distinct non-missing values in ascending order.  *)
GroupKeys(regions) ==
    SortedKeys({regions[i] : i \in 1..Len(regions)} \ {NA})

RECURSIVE SumN(_)
SumN(col) == IF col = << >> THEN 0 ELSE Head(col).n + SumN(Tail(col))

RECURSIVE SumSq(_)
SumSq(col) ==
    IF col = << >> THEN 0 ELSE Head(col).n * Head(col).n + SumSq(Tail(col))

(* 'sum': missing values are skipped; nothing left sums to 0. *)
AggSum(values) == Num(SumN(Valid(values)))

(* 'mean': over the non-missing values; NaN when there is none. *)
AggMean(values) ==
    LET x == Valid(values)
    IN  IF x = << >> THEN NA ELSE Rat(SumN(x), Len(x))

(* 'std' with ddof=0: the population standard deviation. *)
AggStdPopulation(values) ==
    LET x == Valid(values)
        m == Len(x)
    IN  IF m = 0 THEN NA
        ELSE Sqrt(m * SumSq(x) - SumN(x) * SumN(x), m * m)

(* 'std': the sample standard deviation (ddof=1) of the non-missing        *)
(* values, sqrt(sum((x - mean)^2) / (m - 1)); NaN when m <= 1.             *)
AggStd(values) ==
    LET x == Valid(values)
        m == Len(x)
    IN  IF m <= 1 THEN NA
        ELSE Sqrt(m * SumSq(x) - SumN(x) * SumN(x), m * (m - 1))

SumLabel == StrLabel(<<"s", "u", "m">>)

MeanLabel == StrLabel(<<"m", "e", "a", "n">>)

StdLabel == StrLabel(<<"s", "t", "d">>)

aggregate_regional_data(d, value_col, region_col) ==
    IF ~HasColumn(d, region_col) \/ ~HasColumn(d, value_col) THEN Raise("KeyError")
    ELSE IF Dtype(Column(d, value_col)) # "float64" THEN Raise("TypeError")
    ELSE
        LET regions == Column(d, region_col)
            values == Column(d, value_col)
            keys == GroupKeys(regions)
            group(k) == SelectSeq([i \in 1..Len(values) |-> <<regions[i], values[i]>>],
                                  LAMBDA p : p[1] = keys[k])
            vals(k) == [i \in 1..Len(group(k)) |-> group(k)[i][2]]
        IN  ReturnFrame(
              [ columns |-> <<region_col, SumLabel, MeanLabel, StdLabel>>,
                rows |-> [k \in 1..Len(keys) |->
                            [ index |-> k - 1,
                              cells |-> <<keys[k], AggSum(vals(k)), AggMean(vals(k)),
                                          AggStd(vals(k))>> ]] ])

-----------------------------------------------------------------------------
(* The input tables: what a TUIK file parses to, or what a caller holds.   *)
(* Their column labels are distinct (the readers rename repeated headers)  *)
(* and stay distinct when standardized; a table has at least one row, and  *)
(* its rows carry the labels 0, 1, 2, ... of a fresh RangeIndex.           *)

Ankara == Text(<<"A", "n", "k", "a", "r", "a">>)

Izmir == Text(<<"I", "z", "m", "i", "r">>)

Province == StrLabel(<<"P", "r", "o", "v", "i", "n", "c", "e">>)

CropYield == StrLabel(<<"C", "r", "o", "p", " ", "Y", "i", "e", "l", "d">>)

Year == StrLabel(<<"y", "e", "a", "r">>)

CropType == StrLabel(<<"C", "r", "o", "p", "-", "T", "y", "p", "e">>)

DateLabel == StrLabel(<<"d", "a", "t", "e">>)

ValueLabel == StrLabel(<<"v", "a", "l", "u", "e">>)

(* region_col's default, 'province' *)
DefaultRegionCol == StrLabel(<<"p", "r", "o", "v", "i", "n", "c", "e">>)

(* The table with the given columns whose k rows hold the cells f[1..k].   *)
Table(columns, f, k) ==
    [ columns |-> columns,
      rows |-> [i \in 1..k |-> [index |-> i - 1, cells |-> f[i]]] ]

(* The tables of 1..maxRows rows whose rows are drawn from rowDomain. *)
Tables(columns, rowDomain, maxRows) ==
    UNION { { Table(columns, f, k) : f \in [1..k -> rowDomain] } : k \in 1..maxRows }

(* Regional figures: a province and a yield, either possibly missing. *)
RegionalTables ==
    Tables(<<Province, CropYield>>,
           {<<p, v>> : p \in {NA, Ankara, Izmir}, v \in {NA, Num(10), Num(20)}},
           MaxRows)

(* A year column, which clean_dataframe converts, beside a text column. *)
DatedTables ==
    Tables(<<Year, CropType>>,
           {<<y, c>> : y \in {Num(2020), Text(<<"?">>)},
                       c \in {NA, Text(<<"w", "h", "e", "a", "t">>)}},
           MaxRows)

(* A column of timestamps beside a numeric one. *)
TemporalTables ==
    Tables(<<DateLabel, ValueLabel>>,
           {<<t, Num(1)>> : t \in {NA, Date(0), Date(8)}},
           MaxRows)

(* A spreadsheet whose header row holds the years as integers. *)
YearHeaderTables ==
    Tables(<<IntLabel(2019), IntLabel(2020)>>,
           {<<a, b>> : a \in {NA, Num(1)}, b \in {NA, Num(1)}},
           MaxRows)

(* One numeric column. *)
SeriesTables ==
    Tables(<<ValueLabel>>, {<<v>> : v \in {NA, Num(1), Num(9)}}, MaxSeries)

(* The values 1, 2, 2, 3, 2, 100 in one column. *)
OutlierScenario ==
    Table(<<ValueLabel>>,
          << <<Num(1)>>, <<Num(2)>>, <<Num(2)>>, <<Num(3)>>, <<Num(2)>>, <<Num(100)>> >>,
          6)

(* Ankara 10, Ankara 20, Izmir 5. *)
RegionScenario ==
    Table(<<DefaultRegionCol, ValueLabel>>,
          << <<Ankara, Num(10)>>, <<Ankara, Num(20)>>, <<Izmir, Num(5)>> >>,
          3)

Datasets ==
    RegionalTables \cup DatedTables \cup TemporalTables \cup YearHeaderTables
        \cup SeriesTables \cup {OutlierScenario, RegionScenario}

(* The file paths load is called with. *)
Paths ==
    { <<"t", ".", "x", "l", "s", "x">>, <<"t", ".", "x", "l", "s">>,
      <<"t", ".", "c", "s", "v">> }

-----------------------------------------------------------------------------
(* State                                                                   *)
(*   raw     the input table: the content of the file, and the dataframe   *)
(*           the caller starts with                                        *)
(*   df      the caller's dataframe object (standardize_column_names       *)
(*           renames its columns in place)                                 *)
(*   applied whether standardize_column_names has renamed df: "never",     *)
(*           "once", or "again" (more than once)                           *)
(*   call    the call in progress or last made: [op, column, value_col,    *)
(*           region_col, path]                                             *)
(*   ret     what that call handed back to the caller                      *)
(*   pc      where process_agricultural_data stands ("idle": not running)  *)
(*   frame   its local variable df while it runs                           *)
(*   raised  the exception raised inside its try block while it runs       *)
(*           ("" for none)                                                 *)
(*   logs    the log records emitted by the call `call`                    *)

NoLabel == StrLabel(<< >>)

Call(op, column, value_col, region_col, path) ==
    [op |-> op, column |-> column, value_col |-> value_col,
     region_col |-> region_col, path |-> path]

NoCall == Call("none", NoLabel, NoLabel, NoLabel, << >>)

Labels(d) == {d.columns[j] : j \in 1..Len(d.columns)}

Init ==
    /\ raw \in Datasets
    /\ df = raw
    /\ applied = "never"
    /\ pc = "idle"
    /\ call = NoCall
    /\ frame = NoFrame
    /\ raised = ""
    /\ logs = << >>
    /\ ret = NoResult

(* cleaned = processor.clean_dataframe(df) *)
CleanDataframe ==
    /\ pc = "idle"
    /\ call' = Call("clean_dataframe", NoLabel, NoLabel, NoLabel, << >>)
    /\ ret' = ReturnFrame(clean_dataframe(df))
    /\ logs' = << >>
    /\ UNCHANGED <<raw, df, applied, pc, frame, raised>>

(* processor.standardize_column_names(df): df.columns is assigned, so the  *)
(* caller's dataframe is renamed, and df itself is returned.               *)
StandardizeColumnNames ==
    /\ pc = "idle"
    /\ call' = Call("standardize_column_names", NoLabel, NoLabel, NoLabel, << >>)
    /\ IF AllStrLabels(df)
       THEN /\ df' = standardize_column_names(df)
            /\ applied' = IF applied = "never" THEN "once" ELSE "again"
            /\ ret' = ReturnFrame(df')
       ELSE /\ UNCHANGED <<df, applied>>
            /\ ret' = Raise("AttributeError")
    /\ logs' = << >>
    /\ UNCHANGED <<raw, pc, frame, raised>>

(* processor.detect_outliers(df, column) *)
DetectOutliers ==
    /\ pc = "idle"
    /\ \E column \in Labels(df) :
          /\ call' = Call("detect_outliers", column, NoLabel, NoLabel, << >>)
          /\ ret' = detect_outliers(df, column)
    /\ logs' = << >>
    /\ UNCHANGED <<raw, df, applied, pc, frame, raised>>

(* processor.aggregate_regional_data(df, value_col, region_col) *)
AggregateRegionalData ==
    /\ pc = "idle"
    /\ \E value_col \in Labels(df), region_col \in Labels(df) \cup {DefaultRegionCol} :
          /\ call' = Call("aggregate_regional_data", NoLabel, value_col, region_col, << >>)
          /\ ret' = aggregate_regional_data(df, value_col, region_col)
    /\ logs' = << >>
    /\ UNCHANGED <<raw, df, applied, pc, frame, raised>>

-----------------------------------------------------------------------------
(* TuikDataProcessor.process_agricultural_data, statement by statement *)

InfoRecord(path) == [level |-> "INFO", path |-> path, cause |-> ""]

ErrorRecord(path, cause) == [level |-> "ERROR", path |-> path, cause |-> cause]

(* The reader the extension selects. *)
Reader(path) ==
    IF EndsWith(path, <<".", "x", "l", "s", "x">>) \/ EndsWith(path, <<".", "x", "l", "s">>)
    THEN "read_excel"
    ELSE "read_csv"

(* What a reader raises on a file it cannot read. *)
ReadErrors(reader) ==
    IF reader = "read_excel"
    THEN {"FileNotFoundError", "ValueError"}
    ELSE {"FileNotFoundError", "ParserError"}

(* processor.process_agricultural_data(file_path) is entered. *)
LoadCall ==
    /\ pc = "idle"
    /\ \E path \in Paths : call' = Call("process_agricultural_data", NoLabel, NoLabel, NoLabel, path)
    /\ pc' = "read"
    /\ ret' = NoResult
    /\ logs' = << >>
    /\ frame' = NoFrame
    /\ raised' = ""
    /\ UNCHANGED <<raw, df, applied>>

(* df = pd.read_excel(file_path) / pd.read_csv(file_path, encoding='utf-8') *)
ReadFile ==
    /\ pc = "read"
    /\ \/ /\ frame' = raw
          /\ pc' = "clean"
          /\ UNCHANGED raised
       \/ /\ \E e \in ReadErrors(Reader(call.path)) : raised' = e
          /\ pc' = "except"
          /\ UNCHANGED frame
    /\ UNCHANGED <<raw, df, applied, call, logs, ret>>

(* df = self.clean_dataframe(df) *)
LoadClean ==
    /\ pc = "clean"
    /\ frame' = clean_dataframe(frame)
    /\ pc' = "standardize"
    /\ UNCHANGED <<raw, df, applied, call, raised, logs, ret>>

(* df = self.standardize_column_names(df) *)
LoadStandardize ==
    /\ pc = "standardize"
    /\ IF AllStrLabels(frame)
       THEN /\ frame' = standardize_column_names(frame)
            /\ pc' = "log_info"
            /\ UNCHANGED raised
       ELSE /\ raised' = "AttributeError"
            /\ pc' = "except"
            /\ UNCHANGED frame
    /\ UNCHANGED <<raw, df, applied, call, logs, ret>>

(* self.logger.info(f"Successfully processed {file_path}") *)
LogInfo ==
    /\ pc = "log_info"
    /\ logs' = Append(logs, InfoRecord(call.path))
    /\ pc' = "return"
    /\ UNCHANGED <<raw, df, applied, call, frame, raised, ret>>

(* return df *)
Return ==
    /\ pc = "return"
    /\ ret' = ReturnFrame(frame)
    /\ pc' = "idle"
    /\ frame' = NoFrame
    /\ raised' = ""
    /\ UNCHANGED <<raw, df, applied, call, logs>>

(* except Exception as e: self.logger.error(f"Error processing ...") *)
LogError ==
    /\ pc = "except"
    /\ logs' = Append(logs, ErrorRecord(call.path, raised))
    /\ pc' = "reraise"
    /\ UNCHANGED <<raw, df, applied, call, frame, raised, ret>>

(* The exception swallowed: the handler returns instead of raising. *)
ReraiseSwallowed ==
    /\ pc = "reraise"
    /\ ret' = ReturnFrame(frame)
    /\ pc' = "idle"
    /\ frame' = NoFrame
    /\ raised' = ""
    /\ UNCHANGED <<raw, df, applied, call, logs>>

(* raise *)
Reraise ==
    /\ pc = "reraise"
    /\ ret' = Raise(raised)
    /\ pc' = "idle"
    /\ frame' = NoFrame
    /\ raised' = ""
    /\ UNCHANGED <<raw, df, applied, call, logs>>

Next ==
    \/ CleanDataframe
    \/ StandardizeColumnNames
    \/ DetectOutliers
    \/ AggregateRegionalData
    \/ LoadCall
    \/ ReadFile
    \/ LoadClean
    \/ LoadStandardize
    \/ LogInfo
    \/ Return
    \/ LogError
    \/ Reraise

Spec == Init /\ [][Next]_vars

-----------------------------------------------------------------------------
(* Properties.  clean_dataframe, detect_outliers and                       *)
(* aggregate_regional_data leave df as it was, so in the state after such  *)
(* a call df is the dataset the call was given.                            *)

(* The row labels of a dataframe, in row order. *)
Indices(f) == [i \in 1..Len(f.rows) |-> f.rows[i].index]

(* The number of missing cells of a row. *)
MissingCount(row) == Cardinality({j \in 1..Len(row.cells) : row.cells[j] = NA})

(* Whether the row labelled x is a row of f. *)
HasRow(f, x) == \E k \in 1..Len(f.rows) : f.rows[k].index = x

(* The row of f labelled x. *)
RowOf(f, x) == f.rows[CHOOSE k \in 1..Len(f.rows) : f.rows[k].index = x]

Cleaned == call.op = "clean_dataframe" /\ ret.kind = "frame"

(* C1: clean_dataframe drops exactly the rows whose number of missing      *)
(* values exceeds the threshold times the number of columns, and keeps     *)
(* every other row, whatever the number of rows.                           *)
C1_DropsRowsOverColumnFraction ==
    Cleaned =>
        \A i \in 1..Len(df.rows) :
            HasRow(ret.frame, df.rows[i].index)
                <=> ~(MissingCount(df.rows[i]) * 100
                        > PROCESSING_CONFIG.missing_value_threshold_pct * Len(df.columns))

Aggregated == call.op = "aggregate_regional_data" /\ ret.kind = "frame"

(* The region column the aggregation grouped by. *)
RegionColumn == Column(df, call.region_col)

(* The value column the aggregation summarised. *)
ValueColumn == Column(df, call.value_col)

(* The first source row whose region is the key. *)
FirstRowOf(key) == CHOOSE i \in 1..Len(RegionColumn) :
    /\ RegionColumn[i] = key
    /\ \A h \in 1..(i - 1) : RegionColumn[h] # key

(* C3: the rows of the aggregate are ordered by the first appearance of    *)
(* their region in the source: a's row precedes b's row exactly when a's   *)
(* first source row precedes b's first source row.                         *)
C3_FirstAppearanceOrder ==
    Aggregated =>
        \A k, l \in 1..Len(ret.frame.rows) :
            k < l <=> FirstRowOf(ret.frame.rows[k].cells[1])
                        < FirstRowOf(ret.frame.rows[l].cells[1])

(* The distinct values occurring in the region column. *)
DistinctRegions == {RegionColumn[i] : i \in 1..Len(RegionColumn)} \ {NA}

(* C4: the aggregate has as many rows as the region column has distinct    *)
(* values, one row for each of them, also when some rows have no region.   *)
C4_OneRowPerDistinctRegion ==
    Aggregated =>
        /\ Len(ret.frame.rows) = Cardinality(DistinctRegions)
        /\ \A v \in DistinctRegions :
              Cardinality({k \in 1..Len(ret.frame.rows) : ret.frame.rows[k].cells[1] = v}) = 1

(* C4's case: a source with a region and a row whose region is missing    *)
(* aggregated.                                                             *)
C4_Witness_MissingRegion ==
    /\ Aggregated
    /\ \E i \in 1..Len(RegionColumn) : RegionColumn[i] = NA
    /\ Len(ret.frame.rows) = 1

(* The source rows of the group with the given key. *)
GroupRows(key) == {i \in 1..Len(RegionColumn) : RegionColumn[i] = key}

(* The sample standard deviation of the values at source rows R, each of  *)
(* them present: the root of sum_i (m*x_i - sum x)^2 / (m^2 * (m - 1)).    *)
SampleStd(R) ==
    LET m == Cardinality(R)
        RECURSIVE Total(_)
        Total(S) == IF S = {} THEN 0
                    ELSE LET i == CHOOSE e \in S : TRUE
                         IN  ValueColumn[i].n + Total(S \ {i})
        RECURSIVE Squares(_)
        Squares(S) == IF S = {} THEN 0
                      ELSE LET i == CHOOSE e \in S : TRUE
                               dev == m * ValueColumn[i].n - Total(R)
                           IN  dev * dev + Squares(S \ {i})
    IN  Sqrt(Squares(R), m * m * (m - 1))

(* C5 as claimed: a group of exactly one source row has a missing standard *)
(* deviation, and its sum and mean both equal that row's value; a group of *)
(* two or more rows gets the sample (N-1) standard deviation of its rows.  *)
C5_SingleRowGroupAsClaimed ==
    Aggregated =>
        \A k \in 1..Len(ret.frame.rows) :
            LET out == ret.frame.rows[k].cells
                R == GroupRows(out[1])
            IN  IF Cardinality(R) = 1
                THEN LET v == ValueColumn[CHOOSE i \in R : TRUE]
                     IN  out[4] = NA /\ out[2] = v /\ out[3] = v
                ELSE out[4] = SampleStd(R)

(* C5 amended: counting the non-missing values of a group, a group with    *)
(* exactly one has a missing standard deviation and that value as sum and  *)
(* mean; a group with none has sum 0 and a missing mean and standard       *)
(* deviation; a group with two or more has their sample (N-1) standard     *)
(* deviation.  A group of one source row always has a missing standard     *)
(* deviation, never zero.                                                  *)
C5_SingleValueGroupStdMissing ==
    Aggregated =>
        \A k \in 1..Len(ret.frame.rows) :
            LET out == ret.frame.rows[k].cells
                R == GroupRows(out[1])
                P == {i \in R : ValueColumn[i] # NA}
            IN  /\ Cardinality(R) = 1 => out[4] = NA
                /\ Cardinality(P) = 1 =>
                      LET v == ValueColumn[CHOOSE i \in P : TRUE]
                      IN  out[4] = NA /\ out[2] = v /\ out[3] = v
                /\ Cardinality(P) = 0 => out[4] = NA /\ out[2] = Num(0) /\ out[3] = NA
                /\ Cardinality(P) >= 2 => out[4] = SampleStd(P)

(* C5's case: Ankara 10, Ankara 20, Izmir 5 aggregated to Ankara 30, 15,   *)
(* sqrt 50 (7.07) and Izmir 5, 5, missing.                                 *)
C5_Witness_Scenario ==
    /\ Aggregated
    /\ df = RegionScenario
    /\ call.value_col = ValueLabel
    /\ call.region_col = DefaultRegionCol
    /\ Len(ret.frame.rows) = 2
    /\ ret.frame.rows[1].cells = <<Ankara, Num(30), Num(15), Sqrt(50, 1)>>
    /\ ret.frame.rows[2].cells = <<Izmir, Num(5), Num(5), NA>>

Flagged == call.op = "detect_outliers" /\ ret.kind = "series"

(* The column detect_outliers was asked about. *)
OutlierColumn == Column(df, call.column)

(* The rows whose value in that column is present. *)
PresentRows == {i \in 1..Len(OutlierColumn) : OutlierColumn[i] # NA}

(* The k-th smallest (k = 0, 1, ...) of the present values, by counting:   *)
(* at most k values lie below it and more than k do not lie above it.      *)
OrderStat(k) ==
    CHOOSE v \in {OutlierColumn[i].n : i \in PresentRows} :
        /\ Cardinality({i \in PresentRows : OutlierColumn[i].n < v}) <= k
        /\ Cardinality({i \in PresentRows : OutlierColumn[i].n <= v}) > k

(* Four times the quartile q/4 by linear interpolation. *)
Quartile4(q) ==
    LET p == (Cardinality(PresentRows) - 1) * q
        i == p \div 4
        r == p % 4
    IN  IF r = 0 THEN 4 * OrderStat(i)
        ELSE 4 * OrderStat(i) + r * (OrderStat(i + 1) - OrderStat(i))

(* Whether the value v lies strictly outside [Q1 - 1.5 IQR, Q3 + 1.5 IQR], *)
(* everything taken eight times.                                           *)
OutsideFences(v) ==
    LET iqr4 == Quartile4(3) - Quartile4(1)
    IN  \/ 8 * v < 2 * Quartile4(1) - 3 * iqr4
        \/ 8 * v > 2 * Quartile4(3) + 3 * iqr4

(* C6: detect_outliers returns one boolean per row of the dataset, in row  *)
(* order, true exactly when the row's value is strictly below              *)
(* Q1 - 1.5 IQR or strictly above Q3 + 1.5 IQR (quartiles by linear        *)
(* interpolation); so a column of identical values flags no row,           *)
(* 1, 2, 2, 3, 2, 100 flags only the 100, and the dataset keeps its rows.  *)
C6_FlagsOutsideFences ==
    Flagged =>
        /\ Len(ret.series) = Len(df.rows)
        /\ df.rows = raw.rows
        /\ \A i \in 1..Len(df.rows) :
              /\ ret.series[i].index = df.rows[i].index
              /\ ret.series[i].value
                    <=> (i \in PresentRows /\ OutsideFences(OutlierColumn[i].n))
        /\ Cardinality({OutlierColumn[i] : i \in 1..Len(OutlierColumn)}) = 1
              => \A i \in 1..Len(ret.series) : ~ret.series[i].value
        /\ (df = OutlierScenario /\ call.column = ValueLabel)
              => \A i \in 1..Len(ret.series) : ret.series[i].value <=> i = 6

(* C6's case: the six values 1, 2, 2, 3, 2, 100 with only the last flagged. *)
C6_Witness_Scenario ==
    /\ Flagged
    /\ df = OutlierScenario
    /\ Len(ret.series) = 6
    /\ ret.series[6].value
    /\ \A i \in 1..5 : ~ret.series[i].value

(* Whether a column holds a value that is not a number. *)
NonNumeric(col) == \E i \in 1..Len(col) : col[i].t \in {"text", "date"}

(* C7: a numeric operation on a non-numeric column ends in the error       *)
(* InvalidColumnType with no partial result: detect_outliers on a          *)
(* non-numeric column, and aggregate_regional_data whenever value_col is   *)
(* not a numeric column.                                                   *)
C7_NonNumericColumnIsInvalidColumnType ==
    /\ (call.op = "detect_outliers" /\ NonNumeric(Column(df, call.column)))
          => ret = Raise("InvalidColumnType")
    /\ ( /\ call.op = "aggregate_regional_data"
         /\ HasColumn(df, call.region_col)
         /\ NonNumeric(Column(df, call.value_col)) )
          => ret = Raise("InvalidColumnType")

Loading == call.op = "process_agricultural_data"

(* C8: a call of process_agricultural_data ends in one of two ways: one    *)
(* INFO record naming the file, then the dataframe returned, and no ERROR  *)
(* record; or one ERROR record naming the file and the cause, then the     *)
(* exception raised in the try block raised again unchanged, with no INFO  *)
(* record and no dataframe.  Until its record is emitted nothing is logged *)
(* and nothing handed back.                                                *)
C8_LogThenReturnOrReraise ==
    Loading =>
        CASE pc \in {"read", "clean", "standardize", "log_info", "except"} ->
                logs = << >> /\ ret = NoResult
          [] pc = "return" ->
                logs = <<InfoRecord(call.path)>> /\ ret = NoResult /\ raised = ""
          [] pc = "reraise" ->
                /\ logs = <<ErrorRecord(call.path, raised)>>
                /\ ret = NoResult
                /\ raised # ""
          [] pc = "idle" ->
                \/ /\ ret.kind = "frame"
                   /\ logs = <<InfoRecord(call.path)>>
                \/ /\ ret.kind = "raise"
                   /\ ret.exc # ""
                   /\ ret.frame = NoFrame
                   /\ logs = <<ErrorRecord(call.path, ret.exc)>>

(* C8's case: standardizing failed, the error was logged and raised again. *)
C8_Witness_StandardizeFailure ==
    /\ Loading
    /\ pc = "idle"
    /\ ret = Raise("AttributeError")
    /\ logs = <<ErrorRecord(call.path, "AttributeError")>>

Loaded == Loading /\ pc = "idle" /\ ret.kind = "frame"

(* The configured row filter applied to the parsed file. *)
FilteredRaw ==
    dropna(raw, ThreshOf(Len(raw.rows), PROCESSING_CONFIG.missing_value_threshold_pct))

NamedAsDate(label) ==
    label \in { StrLabel(<<"y", "e", "a", "r">>), StrLabel(<<"d", "a", "t", "e">>),
                StrLabel(<<"p", "e", "r", "i", "o", "d">>) }

IsStandardName(label) ==
    /\ label.t = "str"
    /\ \A i \in 1..Len(label.s) :
          /\ ~(Ord(label.s[i]) >= 65 /\ Ord(label.s[i]) <= 90)
          /\ label.s[i] \notin {" ", "-"}

(* C10: standardize_column_names is idempotent: a call leaves names that   *)
(* are lower-case with no space or hyphen, in the same column order and    *)
(* with the same cells, and a call that follows a call changes nothing.    *)
C10_StandardizeIdempotent ==
    [][ (call'.op = "standardize_column_names" /\ ret'.kind = "frame") =>
            /\ ret'.frame = df'
            /\ \A j \in 1..Len(df'.columns) : IsStandardName(df'.columns[j])
            /\ Len(df'.columns) = Len(df.columns)
            /\ df'.rows = df.rows
            /\ (call.op = "standardize_column_names" /\ ret.kind = "frame")
                  => df' = df /\ ret' = ret ]_vars

(* C10's case: a dataset whose names the first call changed, renamed a     *)
(* second time.                                                            *)
C10_Witness_AppliedTwice ==
    /\ call.op = "standardize_column_names"
    /\ ret.kind = "frame"
    /\ applied = "again"
    /\ df.columns # raw.columns

====
